---------------------------- MODULE Spec2Model ----------------------------
(***************************************************************************)
(* Brown-noise generator (main.go): a producer goroutine fills buffers     *)
(* taken from bufferPool with filtered noise and sends them on audioCh;    *)
(* the main loop writes them to the audio player and recycles them; an     *)
(* HTTP handler stores alpha, pitch and volume in atomic values.           *)
(*                                                                         *)
(* float64 values are modelled in fixed point: the integer n stands for    *)
(* n / Scale, a product is rounded to the nearest multiple of 1 / Scale    *)
(* (ties to even, as IEEE-754 does at its own resolution), and sums of     *)
(* fixed-point numbers are exact.                                          *)
(***************************************************************************)
EXTENDS Integers, Sequences, FiniteSets, TLC

(***************************************************************************)
(* Program constants and model bounds                                      *)
(***************************************************************************)
sampleRate == 44100
channelNum == 2
bitDepthInBytes == 2
poolSize == 4

\* Resolution of the fixed-point stand-in for float64.
Scale == 1000

\* Frames per buffer (4410 in the program: sampleRate * bufferDuration).
FramesPerBuffer == 2
\* Buffers the producer may start to fill in one behaviour of Spec.
MaxFills == 5
\* Set-parameter requests served in one behaviour of Spec.
MaxRequests == 1
\* Seeds the random source may be created with.
NumSeeds == 2
\* Goroutines that call generateBrownNoise concurrently in SpecConc
\* (goroutines = 4 in TestConcurrentGeneration), and calls each one makes
\* (iterations = 5).
NumTasks == 2
MaxTaskCalls == 2
\* Calls of generateBrownNoise in one behaviour of SpecGen and of SpecCont.
MaxGenCalls == 2
MaxContCalls == 45

framesPerBuffer == FramesPerBuffer
bufferSizeInBytes == framesPerBuffer * channelNum * bitDepthInBytes

(***************************************************************************)
(* Arithmetic                                                              *)
(***************************************************************************)
Abs(n) == IF n < 0 THEN -n ELSE n

\* n / d rounded to the nearest integer, ties to even (d > 0).
RoundDiv(n, d) ==
    LET q == n \div d
        r == n % d
    IN  IF 2 * r < d THEN q
        ELSE IF 2 * r > d THEN q + 1
        ELSE IF q % 2 = 0 THEN q ELSE q + 1

\* n / d truncated toward zero (d > 0): a float-to-integer conversion.
TruncDiv(n, d) == IF n >= 0 THEN n \div d ELSE -((-n) \div d)

\* float64 product of two fixed-point numbers.
FMul(x, y) == RoundDiv(x * y, Scale)

\* math.Sin(2*pi*k/12), k an integer, in fixed point.
SinTwelfth(k) ==
    LET m    == k % 12
        half == RoundDiv(Scale, 2)
        r3   == RoundDiv(866025 * Scale, 1000000)
    IN  CASE m \in {0, 6}  -> 0
          [] m \in {1, 5}  -> half
          [] m \in {2, 4}  -> r3
          [] m = 3         -> Scale
          [] m \in {7, 11} -> -half
          [] m \in {8, 10} -> -r3
          [] OTHER         -> -Scale

\* math.Sin(2 * math.Pi * pitch * tonePhase / float64(sampleRate)) for a pitch
\* that is a multiple of sampleRate / 12 Hz (the pitches of PitchInputs): the
\* angle advances by a whole number of twelfths of a turn per frame.
ToneSin(pitch, phase) ==
    SinTwelfth(((pitch * 12) \div (sampleRate * Scale)) * phase)

\* Ema without the (1-alpha) factor: a plain running sum.
EmaNoDecay(alpha, randomSample, last) == FMul(alpha, randomSample) + last

\* lastSample = alpha*randomSample + (1-alpha)*lastSample
Ema(alpha, randomSample, last) ==
    FMul(alpha, randomSample) + FMul(Scale - alpha, last)

\* ToneSample with a tone injector that falls back to 11025 Hz when pitch
\* is not above 0.
ToneSampleDefaultPitch(last, pitch, phase) ==
    last + ToneSin(IF pitch > 0 THEN pitch ELSE 11025 * Scale, phase)

\* sample := lastSample; if pitch > 0 { sample += math.Sin(...) }
ToneSample(last, pitch, phase) ==
    IF pitch > 0 THEN last + ToneSin(pitch, phase) ELSE last

\* The integer part of sample * 32767 * vol: the exact product over
\* Scale * Scale, truncated toward zero, computed without leaving 32 bits.
Scaled(sample, vol) ==
    LET x   == Abs(sample) * 32767
        w   == Abs(vol)
        mag == ((x \div Scale) * w + ((x % Scale) * w) \div Scale) \div Scale
    IN  IF (sample < 0) = (vol < 0) THEN mag ELSE -mag

Wrap16(t) == ((t + 32768) % 65536) - 32768
Clamp16(t) == IF t > 32767 THEN 32767 ELSE IF t < -32768 THEN -32768 ELSE t

\* int16(f) for a float64 f with integer part t.  Go leaves the conversion of
\* a value that int16 cannot represent implementation-dependent: a build
\* either keeps the low 16 bits of the wider integer ("wrap") or saturates
\* ("saturate"); it is the same for every conversion of one process.
Int16Of(t, bld) ==
    IF t >= -32768 /\ t <= 32767 THEN t
    ELSE IF bld = "wrap" THEN Wrap16(t) ELSE Clamp16(t)

\* s := int16(sample * 32767 * vol)
Quantize(sample, vol, bld) == Int16Of(Scaled(sample, vol), bld)

\* FrameBytes without the mask: u := uint32(s) is sign-extended, and the
\* high half of (u<<16)|u is all ones for a negative s.
FrameBytesNoMask(s) ==
    LET lo == s % 65536
        hi == IF s < 0 THEN 65535 ELSE s
    IN  << lo % 256, lo \div 256, hi % 256, hi \div 256 >>

\* u := uint32(s) & 0xFFFF; binary.LittleEndian.PutUint32(.., (u<<16)|u):
\* the low half of the word is u and so is its high half.
FrameBytes(s) ==
    LET u  == s % 65536
        lo == u
        hi == u
    IN  << lo % 256, lo \div 256, hi % 256, hi \div 256 >>

\* int16(binary.LittleEndian.Uint16(buf[off:off+2])), off a 0-based offset.
Int16At(bytes, off) ==
    LET u == bytes[off + 1] + 256 * bytes[off + 2]
    IN  IF u >= 32768 THEN u - 65536 ELSE u

\* buffer[off:off+4] overwritten with four bytes.
PutFrame(bytes, off, four) ==
    [k \in 1..Len(bytes) |->
        IF k > off /\ k <= off + 4 THEN four[k - off] ELSE bytes[k]]

(***************************************************************************)
(* The random source: rand.New(rand.NewSource(seed)) and r.Float64().      *)
(* math/rand is outside the repository; a full-period congruential         *)
(* generator with 16 states stands in for it: like it, the stream is a     *)
(* function of the seed alone and every value lies in [0, 1).              *)
(***************************************************************************)
NewSource(sd) == sd % 16
NextRng(s) == (5 * s + 3) % 16
Float64(s) == RoundDiv(s * Scale, 16) % Scale

\* randomSample := 2*r.Float64() - 1
RandomSample(s) == 2 * Float64(s) - Scale

(***************************************************************************)
(* strconv.ParseFloat on a form value, a sequence of characters.  Decimal  *)
(* notation only: an optional sign, digits, an optional point and digits.  *)
(***************************************************************************)
Digits == {"0", "1", "2", "3", "4", "5", "6", "7", "8", "9"}

DigitVal(c) ==
    CASE c = "0" -> 0 [] c = "1" -> 1 [] c = "2" -> 2 [] c = "3" -> 3
      [] c = "4" -> 4 [] c = "5" -> 5 [] c = "6" -> 6 [] c = "7" -> 7
      [] c = "8" -> 8 [] OTHER -> 9

RECURSIVE DigitsVal(_)
DigitsVal(s) ==
    IF s = <<>> THEN 0
    ELSE 10 * DigitsVal(SubSeq(s, 1, Len(s) - 1)) + DigitVal(s[Len(s)])

RECURSIVE Pow10(_)
Pow10(n) == IF n = 0 THEN 1 ELSE 10 * Pow10(n - 1)

AllDigits(s) == \A k \in 1..Len(s) : s[k] \in Digits

ParseFloat(str) ==
    LET neg   == str # <<>> /\ str[1] = "-"
        body  == IF str # <<>> /\ str[1] \in {"-", "+"}
                 THEN SubSeq(str, 2, Len(str)) ELSE str
        dots  == {k \in 1..Len(body) : body[k] = "."}
        dot   == IF dots = {} THEN Len(body) + 1
                 ELSE CHOOSE k \in dots : \A m \in dots : k <= m
        whole == SubSeq(body, 1, dot - 1)
        frac  == SubSeq(body, dot + 1, Len(body))
        ok    == /\ Cardinality(dots) <= 1
                 /\ AllDigits(whole) /\ AllDigits(frac)
                 /\ Len(whole) + Len(frac) > 0
        mag   == RoundDiv((DigitsVal(whole) * Pow10(Len(frac)) + DigitsVal(frac))
                            * Scale, Pow10(Len(frac)))
    IN  IF ok THEN [err |-> FALSE, val |-> IF neg THEN -mag ELSE mag]
        ELSE [err |-> TRUE, val |-> 0]


(***************************************************************************)
(* State                                                                   *)
(***************************************************************************)
VARIABLES
    halted,      \* "running", "panic" once player.Write has failed, or
                 \* "fatal" once http.ListenAndServe has returned
    bufferPool,  \* chan []byte: the free buffers, oldest first
    audioCh,     \* chan []byte: the filled buffers, oldest first
    buffers,     \* the bytes of each pre-allocated buffer
    ppc,         \* position of the producer goroutine
    prodBuf,     \* the producer's buf (0: none)
    a, p, v,     \* the producer's snapshot of alpha, pitch and volume
    i,           \* generateBrownNoise's byte offset into the buffer
    cpc,         \* position of the main loop
    consBuf,     \* the main loop's buf (0: none)
    lastSample,  \* package-level filter state
    tonePhase,   \* package-level phase accumulator
    alphaVal, pitchVal, volumeVal,  \* the atomic.Value parameters
    rng,         \* state of privateRand
    build,       \* how this build converts an out-of-range float to int16
    hpc,         \* position of the HTTP handler
    req,         \* the request being handled
    \* History, read by the properties only:
    seed,        \* the seed privateRand was created with
    requests,    \* requests accepted so far
    fillCount,   \* buffers the producer has taken so far
    seqOf,       \* generation sequence number of each buffer's last fill
    played,      \* sequence numbers in the order the main loop dequeued them
    recycled,    \* buffers the main loop has returned to bufferPool
    cfgLog,      \* the snapshot each fill started with
    fillCfg,     \* alpha, pitch, volume used for each frame of the current fill
    storeEpoch,  \* fillCount at the latest Store of each parameter
    cfgAtReq,    \* the parameters when the current request arrived
    \* Used when several goroutines call generateBrownNoise (SpecConc):
    tasks        \* each such goroutine's position, random source and locals

vars == << halted, bufferPool, audioCh, buffers, ppc, prodBuf, a, p, v, i,
           cpc, consBuf, lastSample, tonePhase, alphaVal, pitchVal, volumeVal,
           rng, build, hpc, req, seed, requests, fillCount, seqOf, played,
           recycled, cfgLog, fillCfg, storeEpoch, cfgAtReq, tasks >>

pipeVars == << bufferPool, audioCh, prodBuf, cpc, consBuf, played, recycled >>
genVars  == << buffers, i, lastSample, tonePhase, rng, fillCfg >>
cfgVars  == << alphaVal, pitchVal, volumeVal, storeEpoch >>
httpVars == << hpc, req, requests, cfgAtReq >>

Builds == {"wrap", "saturate"}
BufferIds == 1..poolSize
ZeroBuffer == [k \in 1..bufferSizeInBytes |-> 0]
NoReq == [parseErr |-> FALSE, alpha |-> <<>>, pitch |-> <<>>, volume |-> <<>>]

\* Values a form field may carry: absent or empty, not a number, numbers.
AlphaInputs  == { <<>>, <<"z">>, <<"0", ".", "5">>, <<"2">> }
PitchInputs  == { <<>>, <<"1", "1", "0", "2", "5">> }
VolumeInputs == { <<>>, <<"2">> }

\* The requests the control surface may send; one of them has a body that
\* r.ParseForm rejects, one carries numbers below 0.
Requests ==
    [parseErr : {FALSE}, alpha : AlphaInputs, pitch : PitchInputs,
     volume : VolumeInputs]
    \cup {[parseErr |-> TRUE, alpha |-> <<"2">>, pitch |-> <<>>,
           volume |-> <<"2">>]}
    \cup {[parseErr |-> FALSE, alpha |-> <<>>, pitch |-> <<"-", "5">>,
           volume |-> <<"-", "2">>]}

\* init(): alphaVal.Store(0.01); pitchVal.Store(0.0); volumeVal.Store(1.0)
DefaultAlpha  == RoundDiv(Scale, 100)
DefaultPitch  == 0 * Scale
DefaultVolume == 1 * Scale

\* Everything but the free queue, the parameters, the seed, the build and
\* the extra generation goroutines, as main leaves it before its two loops
\* start.
InitCommon ==
    /\ halted = "running"
    /\ audioCh = <<>>
    /\ buffers = [b \in BufferIds |-> ZeroBuffer]
    /\ ppc = "recv" /\ prodBuf = 0 /\ a = 0 /\ p = 0 /\ v = 0 /\ i = 0
    /\ cpc = "recv" /\ consBuf = 0
    /\ lastSample = 0 /\ tonePhase = 0
    /\ hpc = "idle" /\ req = NoReq
    /\ requests = 0 /\ fillCount = 0
    /\ seqOf = [b \in BufferIds |-> 0]
    /\ played = <<>> /\ recycled = 0
    /\ cfgLog = <<>> /\ fillCfg = <<>>
    /\ storeEpoch = [alpha |-> 0, pitch |-> 0, volume |-> 0]

Init ==
    /\ InitCommon
    /\ bufferPool = [k \in 1..poolSize |-> k]
    /\ seed \in 0..(NumSeeds - 1)
    /\ rng = NewSource(seed)
    /\ build \in Builds
    /\ alphaVal = DefaultAlpha /\ pitchVal = DefaultPitch
    /\ volumeVal = DefaultVolume
    /\ cfgAtReq = << DefaultAlpha, DefaultPitch, DefaultVolume >>
    /\ tasks = <<>>

\* Running for a process that goes on after a failed write.
RunningAlways == TRUE

\* Running for a pipeline that outlives the server: only a failed write
\* stops it.
RunningUnlessPanic == halted # "panic"

Running == halted = "running"

(***************************************************************************)
(* The producer goroutine                                                  *)
(***************************************************************************)
\* ProducerRecv with a producer that allocates when no buffer is free.
ProducerRecvAlloc ==
    /\ Running /\ ppc = "recv"
    /\ fillCount < MaxFills
    /\ LET fresh == Cardinality(DOMAIN buffers) + 1
           taken == IF bufferPool # <<>> THEN Head(bufferPool) ELSE fresh
       IN  /\ prodBuf' = taken
           /\ bufferPool' = IF bufferPool # <<>> THEN Tail(bufferPool)
                            ELSE bufferPool
           /\ buffers' = IF bufferPool # <<>> THEN buffers
                         ELSE [b \in DOMAIN buffers \cup {fresh} |->
                                 IF b = fresh THEN ZeroBuffer ELSE buffers[b]]
           /\ seqOf' = [b \in DOMAIN seqOf \cup {taken} |->
                          IF b = taken THEN fillCount + 1 ELSE seqOf[b]]
    /\ fillCount' = fillCount + 1
    /\ ppc' = "loadAlpha"
    /\ UNCHANGED << halted, audioCh, cpc, consBuf, played, recycled, a, p, v,
                    cfgLog, i, lastSample, tonePhase, rng, fillCfg, cfgVars,
                    httpVars, build, seed, tasks >>

\* buf := <-bufferPool
ProducerRecv ==
    /\ Running /\ ppc = "recv"
    /\ bufferPool # <<>>
    /\ fillCount < MaxFills
    /\ prodBuf' = Head(bufferPool)
    /\ bufferPool' = Tail(bufferPool)
    /\ fillCount' = fillCount + 1
    /\ seqOf' = [seqOf EXCEPT ![Head(bufferPool)] = fillCount + 1]
    /\ ppc' = "loadAlpha"
    /\ UNCHANGED << halted, audioCh, cpc, consBuf, played, recycled, a, p, v,
                    cfgLog, genVars, cfgVars, httpVars, build, seed, tasks >>

\* a := alphaVal.Load().(float64)
ProducerLoadAlpha ==
    /\ Running /\ ppc = "loadAlpha"
    /\ a' = alphaVal
    /\ ppc' = "loadPitch"
    /\ UNCHANGED << halted, pipeVars, p, v, fillCount, seqOf, cfgLog, genVars,
                    cfgVars, httpVars, build, seed, tasks >>

\* p := pitchVal.Load().(float64)
ProducerLoadPitch ==
    /\ Running /\ ppc = "loadPitch"
    /\ p' = pitchVal
    /\ ppc' = "loadVolume"
    /\ UNCHANGED << halted, pipeVars, a, v, fillCount, seqOf, cfgLog, genVars,
                    cfgVars, httpVars, build, seed, tasks >>

\* ProducerLoadVolume with the phase accumulator reset for every buffer.
ProducerLoadVolumeResetsPhase ==
    /\ Running /\ ppc = "loadVolume"
    /\ v' = volumeVal
    /\ i' = 0
    /\ tonePhase' = 0
    /\ cfgLog' = Append(cfgLog, << a, p, volumeVal >>)
    /\ fillCfg' = <<>>
    /\ ppc' = "gen"
    /\ UNCHANGED << halted, pipeVars, a, p, fillCount, seqOf, buffers,
                    lastSample, rng, cfgVars, httpVars, build, seed, tasks >>

\* v := volumeVal.Load().(float64), and the call of generateBrownNoise
ProducerLoadVolume ==
    /\ Running /\ ppc = "loadVolume"
    /\ v' = volumeVal
    /\ i' = 0
    /\ cfgLog' = Append(cfgLog, << a, p, volumeVal >>)
    /\ fillCfg' = <<>>
    /\ ppc' = "gen"
    /\ UNCHANGED << halted, pipeVars, a, p, fillCount, seqOf, buffers,
                    lastSample, tonePhase, rng, cfgVars, httpVars, build,
                    seed, tasks >>

\* FrameAlpha with the parameter read anew for every frame.
FrameAlphaLive == alphaVal

\* The parameters of generateBrownNoise, as its loop body reads them.
FrameAlpha == a
FramePitch == p
FrameVol   == v

\* GenFrame with the filter state local to the call: each buffer starts at 0.
GenFrameLocalState(randomSample) ==
    /\ Running /\ ppc = "gen"
    /\ i < Len(buffers[prodBuf])
    /\ LET last   == Ema(FrameAlpha, randomSample,
                         IF i = 0 THEN 0 ELSE lastSample)
           sample == ToneSample(last, FramePitch, tonePhase)
           s      == Quantize(sample, FrameVol, build)
       IN  /\ lastSample' = last
           /\ buffers' = [buffers EXCEPT
                            ![prodBuf] = PutFrame(@, i, FrameBytes(s))]
    /\ tonePhase' = tonePhase + 1
    /\ fillCfg' = Append(fillCfg, << FrameAlpha, FramePitch, FrameVol >>)
    /\ i' = i + 4
    /\ ppc' = IF i + 4 < Len(buffers[prodBuf]) THEN "gen" ELSE "send"
    /\ UNCHANGED << halted, pipeVars, a, p, v, fillCount, seqOf, cfgLog,
                    cfgVars, httpVars, build, seed, tasks >>

\* One iteration of generateBrownNoise's loop, given randomSample.
GenFrame(randomSample) ==
    /\ Running /\ ppc = "gen"
    /\ i < Len(buffers[prodBuf])
    /\ LET last   == Ema(FrameAlpha, randomSample, lastSample)
           sample == ToneSample(last, FramePitch, tonePhase)
           s      == Quantize(sample, FrameVol, build)
       IN  /\ lastSample' = last
           /\ buffers' = [buffers EXCEPT
                            ![prodBuf] = PutFrame(@, i, FrameBytes(s))]
    /\ tonePhase' = tonePhase + 1
    /\ fillCfg' = Append(fillCfg, << FrameAlpha, FramePitch, FrameVol >>)
    /\ i' = i + 4
    /\ ppc' = IF i + 4 < Len(buffers[prodBuf]) THEN "gen" ELSE "send"
    /\ UNCHANGED << halted, pipeVars, a, p, v, fillCount, seqOf, cfgLog,
                    cfgVars, httpVars, build, seed, tasks >>

\* The loop body with randomSample drawn from privateRand.
ProducerGen ==
    /\ GenFrame(RandomSample(NextRng(rng)))
    /\ rng' = NextRng(rng)

\* ProducerSend with the buffer sent twice.
ProducerSendDuplicates ==
    /\ Running /\ ppc = "send"
    /\ Len(audioCh) < poolSize
    /\ audioCh' = Append(Append(audioCh, prodBuf), prodBuf)
    /\ prodBuf' = 0
    /\ ppc' = "recv"
    /\ UNCHANGED << halted, bufferPool, cpc, consBuf, played, recycled,
                    a, p, v, fillCount, seqOf, cfgLog, genVars, cfgVars,
                    httpVars, build, seed, tasks >>

\* ProducerSend with the filter state reset once the buffer is handed over.
ProducerSendResets ==
    /\ Running /\ ppc = "send"
    /\ Len(audioCh) < poolSize
    /\ audioCh' = Append(audioCh, prodBuf)
    /\ prodBuf' = 0
    /\ lastSample' = 0
    /\ ppc' = "recv"
    /\ UNCHANGED << halted, bufferPool, cpc, consBuf, played, recycled,
                    a, p, v, fillCount, seqOf, cfgLog, buffers, i, tonePhase,
                    rng, fillCfg, cfgVars, httpVars, build, seed, tasks >>

\* audioCh <- buf
ProducerSend ==
    /\ Running /\ ppc = "send"
    /\ Len(audioCh) < poolSize
    /\ audioCh' = Append(audioCh, prodBuf)
    /\ prodBuf' = 0
    /\ ppc' = "recv"
    /\ UNCHANGED << halted, bufferPool, cpc, consBuf, played, recycled,
                    a, p, v, fillCount, seqOf, cfgLog, genVars, cfgVars,
                    httpVars, build, seed, tasks >>

(***************************************************************************)
(* The main loop                                                           *)
(***************************************************************************)
\* ConsumerRecv that leaves the buffer it takes at the head of audioCh.
ConsumerRecvPeeks ==
    /\ Running /\ cpc = "recv"
    /\ audioCh # <<>>
    /\ consBuf' = Head(audioCh)
    /\ played' = Append(played, seqOf[Head(audioCh)])
    /\ cpc' = "write"
    /\ UNCHANGED << halted, bufferPool, audioCh, prodBuf, recycled, ppc, a, p,
                    v, fillCount, seqOf, cfgLog, genVars, cfgVars, httpVars,
                    build, seed, tasks >>

\* ConsumerRecv taking the newest filled buffer instead of the oldest.
ConsumerRecvNewest ==
    /\ Running /\ cpc = "recv"
    /\ audioCh # <<>>
    /\ consBuf' = audioCh[Len(audioCh)]
    /\ audioCh' = SubSeq(audioCh, 1, Len(audioCh) - 1)
    /\ played' = Append(played, seqOf[audioCh[Len(audioCh)]])
    /\ cpc' = "write"
    /\ UNCHANGED << halted, bufferPool, prodBuf, recycled, ppc, a, p, v,
                    fillCount, seqOf, cfgLog, genVars, cfgVars, httpVars,
                    build, seed, tasks >>

\* ConsumerRecv with the main loop drawing from the producer's random source.
ConsumerRecvDrawsRand ==
    /\ Running /\ cpc = "recv"
    /\ audioCh # <<>>
    /\ consBuf' = Head(audioCh)
    /\ audioCh' = Tail(audioCh)
    /\ played' = Append(played, seqOf[Head(audioCh)])
    /\ rng' = NextRng(rng)
    /\ cpc' = "write"
    /\ UNCHANGED << halted, bufferPool, prodBuf, recycled, ppc, a, p, v,
                    fillCount, seqOf, cfgLog, buffers, i, lastSample,
                    tonePhase, fillCfg, cfgVars, httpVars, build, seed, tasks >>

\* buf := <-audioCh
ConsumerRecv ==
    /\ Running /\ cpc = "recv"
    /\ audioCh # <<>>
    /\ consBuf' = Head(audioCh)
    /\ audioCh' = Tail(audioCh)
    /\ played' = Append(played, seqOf[Head(audioCh)])
    /\ cpc' = "write"
    /\ UNCHANGED << halted, bufferPool, prodBuf, recycled, ppc, a, p, v,
                    fillCount, seqOf, cfgLog, genVars, cfgVars, httpVars,
                    build, seed, tasks >>

\* SinkWriteOk with the buffer recycled as soon as the write has returned,
\* the main loop still holding it.
SinkWriteOkRecycleEarly ==
    /\ Running /\ cpc = "write"
    /\ bufferPool' = IF Len(bufferPool) < poolSize
                     THEN Append(bufferPool, consBuf) ELSE bufferPool
    /\ cpc' = "recycle"
    /\ UNCHANGED << halted, audioCh, prodBuf, consBuf, played,
                    recycled, ppc, a, p, v, fillCount, seqOf, cfgLog,
                    genVars, cfgVars, httpVars, build, seed, tasks >>

\* player.Write(buf) returns without error.
SinkWriteOk ==
    /\ Running /\ cpc = "write"
    /\ cpc' = "recycle"
    /\ UNCHANGED << halted, bufferPool, audioCh, prodBuf, consBuf, played,
                    recycled, ppc, a, p, v, fillCount, seqOf, cfgLog,
                    genVars, cfgVars, httpVars, build, seed, tasks >>

\* player.Write(buf) returns an error: panic(err).
SinkWriteErr ==
    /\ Running /\ cpc = "write"
    /\ halted' = "panic"
    /\ UNCHANGED << pipeVars, ppc, a, p, v, fillCount, seqOf, cfgLog,
                    genVars, cfgVars, httpVars, build, seed, tasks >>

\* ConsumerRecycle with the played buffer dropped instead of recycled.
ConsumerRecycleDrops ==
    /\ Running /\ cpc = "recycle"
    /\ consBuf' = 0
    /\ recycled' = recycled + 1
    /\ cpc' = "recv"
    /\ UNCHANGED << halted, bufferPool, audioCh, prodBuf, played, ppc, a, p, v,
                    fillCount, seqOf, cfgLog, genVars, cfgVars, httpVars,
                    build, seed, tasks >>

\* ConsumerRecycle with the played buffer put back on audioCh.
ConsumerRecycleRequeues ==
    /\ Running /\ cpc = "recycle"
    /\ Len(audioCh) < poolSize
    /\ audioCh' = Append(audioCh, consBuf)
    /\ consBuf' = 0
    /\ recycled' = recycled + 1
    /\ cpc' = "recv"
    /\ UNCHANGED << halted, bufferPool, prodBuf, played, ppc, a, p, v,
                    fillCount, seqOf, cfgLog, genVars, cfgVars, httpVars,
                    build, seed, tasks >>

\* bufferPool <- buf
ConsumerRecycle ==
    /\ Running /\ cpc = "recycle"
    /\ Len(bufferPool) < poolSize
    /\ bufferPool' = Append(bufferPool, consBuf)
    /\ consBuf' = 0
    /\ recycled' = recycled + 1
    /\ cpc' = "recv"
    /\ UNCHANGED << halted, audioCh, prodBuf, played, ppc, a, p, v,
                    fillCount, seqOf, cfgLog, genVars, cfgVars, httpVars,
                    build, seed, tasks >>

(***************************************************************************)
(* The HTTP handler of startServer                                         *)
(***************************************************************************)
\* if v := r.FormValue(name); v != "" {
\*     if val, err := strconv.ParseFloat(v, 64); err == nil { X.Store(val) } }
\* The value the parameter holds afterwards, and whether Store was called.
FieldStores(str) == str # <<>> /\ ~ParseFloat(str).err
\* FieldUpdate without the err == nil test: ParseFloat's 0 is stored.
FieldUpdateNoErrCheck(str, old) ==
    IF str # <<>> THEN ParseFloat(str).val ELSE old
FieldUpdate(str, old) == IF FieldStores(str) THEN ParseFloat(str).val ELSE old

\* A request arrives: r.ParseForm()
HandlerStart(rq) ==
    /\ Running /\ hpc = "idle"
    /\ requests < MaxRequests
    /\ req' = rq
    /\ requests' = requests + 1
    /\ cfgAtReq' = << alphaVal, pitchVal, volumeVal >>
    /\ hpc' = IF rq.parseErr THEN "respond" ELSE "alpha"
    /\ UNCHANGED << halted, pipeVars, ppc, a, p, v, fillCount, seqOf, cfgLog,
                    genVars, cfgVars, build, seed, tasks >>

\* HandleAlpha with the filter restarted whenever alpha is stored.
HandleAlphaResetsFilter ==
    /\ Running /\ hpc = "alpha"
    /\ alphaVal' = FieldUpdate(req.alpha, alphaVal)
    /\ lastSample' = IF FieldStores(req.alpha) THEN 0 ELSE lastSample
    /\ storeEpoch' = IF FieldStores(req.alpha)
                     THEN [storeEpoch EXCEPT !.alpha = fillCount]
                     ELSE storeEpoch
    /\ hpc' = "pitch"
    /\ UNCHANGED << halted, pipeVars, ppc, a, p, v, fillCount, seqOf, cfgLog,
                    buffers, i, tonePhase, rng, fillCfg, pitchVal, volumeVal,
                    req, requests, cfgAtReq, build, seed, tasks >>

\* alphaVal.Store(val), under the tests of the alpha field
HandleAlpha ==
    /\ Running /\ hpc = "alpha"
    /\ alphaVal' = FieldUpdate(req.alpha, alphaVal)
    /\ storeEpoch' = IF FieldStores(req.alpha)
                     THEN [storeEpoch EXCEPT !.alpha = fillCount]
                     ELSE storeEpoch
    /\ hpc' = "pitch"
    /\ UNCHANGED << halted, pipeVars, ppc, a, p, v, fillCount, seqOf, cfgLog,
                    genVars, pitchVal, volumeVal, req, requests, cfgAtReq,
                    build, seed, tasks >>

HandlePitch ==
    /\ Running /\ hpc = "pitch"
    /\ pitchVal' = FieldUpdate(req.pitch, pitchVal)
    /\ storeEpoch' = IF FieldStores(req.pitch)
                     THEN [storeEpoch EXCEPT !.pitch = fillCount]
                     ELSE storeEpoch
    /\ hpc' = "volume"
    /\ UNCHANGED << halted, pipeVars, ppc, a, p, v, fillCount, seqOf, cfgLog,
                    genVars, alphaVal, volumeVal, req, requests, cfgAtReq,
                    build, seed, tasks >>

HandleVolume ==
    /\ Running /\ hpc = "volume"
    /\ volumeVal' = FieldUpdate(req.volume, volumeVal)
    /\ storeEpoch' = IF FieldStores(req.volume)
                     THEN [storeEpoch EXCEPT !.volume = fillCount]
                     ELSE storeEpoch
    /\ hpc' = "respond"
    /\ UNCHANGED << halted, pipeVars, ppc, a, p, v, fillCount, seqOf, cfgLog,
                    genVars, alphaVal, pitchVal, req, requests, cfgAtReq,
                    build, seed, tasks >>

\* The three Loads and fmt.Fprintf of the form; the handler returns.
HandlerRespond ==
    /\ Running /\ hpc = "respond"
    /\ hpc' = "idle"
    /\ req' = NoReq
    /\ UNCHANGED << halted, pipeVars, ppc, a, p, v, fillCount, seqOf, cfgLog,
                    genVars, cfgVars, requests, cfgAtReq, build, seed, tasks >>

\* log.Fatal(http.ListenAndServe(":8080", nil)): ListenAndServe returns (it
\* only ever returns an error) and log.Fatal exits the process.
ServerFatal ==
    /\ Running
    /\ halted' = "fatal"
    /\ UNCHANGED << pipeVars, ppc, a, p, v, fillCount, seqOf, cfgLog,
                    genVars, cfgVars, httpVars, build, seed, tasks >>

(***************************************************************************)
(* The program                                                             *)
(***************************************************************************)
Next ==
    \/ ProducerRecv
    \/ ProducerLoadAlpha
    \/ ProducerLoadPitch
    \/ ProducerLoadVolume
    \/ ProducerGen
    \/ ProducerSend
    \/ ConsumerRecv
    \/ SinkWriteOk
    \/ SinkWriteErr
    \/ ConsumerRecycle
    \/ \E rq \in Requests : HandlerStart(rq)
    \/ HandleAlpha
    \/ HandlePitch
    \/ HandleVolume
    \/ HandlerRespond
    \/ ServerFatal

Spec == Init /\ [][Next]_vars

(***************************************************************************)
(* The pipeline with a sink whose every write returns without error, a     *)
(* server that keeps listening and no request to the handler, the two      *)
(* goroutines scheduled fairly: a goroutine that can take a step           *)
(* eventually takes one.                                                   *)
(***************************************************************************)
ProducerStep ==
    \/ ProducerRecv
    \/ ProducerLoadAlpha
    \/ ProducerLoadPitch
    \/ ProducerLoadVolume
    \/ ProducerGen
    \/ ProducerSend

ConsumerStep ==
    \/ ConsumerRecv
    \/ SinkWriteOk
    \/ ConsumerRecycle

NextLive == ProducerStep \/ ConsumerStep

SpecLive ==
    Init /\ [][NextLive]_vars /\ WF_vars(ProducerStep) /\ WF_vars(ConsumerStep)


(***************************************************************************)
(* The generator driven directly, as the tests of main_test.go drive it:   *)
(* consecutive calls of generateBrownNoise on buf1 and buf2 in turn, with  *)
(* arguments fixed for the run and a random source that may return any     *)
(* value of [0, 1).                                                        *)
(***************************************************************************)
\* randomSample for the least, the middle and the greatest Float64.
RawSamples == { -Scale, 0, Scale - 1 }
RawExtremes == { -Scale, Scale - 1 }

\* Arguments the calls are made with: what a Store can leave in the
\* parameters, in and out of the documented ranges.
GenAlphas  == { 1, RoundDiv(Scale, 100), RoundDiv(Scale, 2), Scale, 2 * Scale }
GenPitches == { 0, 11025 * Scale }
GenVolumes == { RoundDiv(Scale, 2), Scale, 2 * Scale }

\* The tests make their buffers themselves: no buffer is queued.
InitGen ==
    /\ InitCommon
    /\ bufferPool = <<>>
    /\ seed = 0 /\ rng = NewSource(0)
    /\ build \in Builds
    /\ alphaVal \in GenAlphas /\ pitchVal \in GenPitches
    /\ volumeVal \in GenVolumes
    /\ cfgAtReq = << alphaVal, pitchVal, volumeVal >>
    /\ tasks = <<>>

\* The defaults of init(), as TestBrownNoiseContinuity uses them.
InitCont ==
    /\ InitCommon
    /\ bufferPool = <<>>
    /\ seed = 0 /\ rng = NewSource(0)
    /\ build \in Builds
    /\ alphaVal = DefaultAlpha /\ pitchVal = DefaultPitch
    /\ volumeVal = DefaultVolume
    /\ cfgAtReq = << alphaVal, pitchVal, volumeVal >>
    /\ tasks = <<>>

\* generateBrownNoise(r, buf, alpha, pitch, vol) is called on the next buffer.
GenCall(maxCalls) ==
    /\ Running /\ ppc = "recv"
    /\ fillCount < maxCalls
    /\ LET b == 1 + (fillCount % 2)
       IN  /\ prodBuf' = b
           /\ seqOf' = [seqOf EXCEPT ![b] = fillCount + 1]
    /\ fillCount' = fillCount + 1
    /\ a' = alphaVal /\ p' = pitchVal /\ v' = volumeVal
    /\ i' = 0
    /\ cfgLog' = Append(cfgLog, << alphaVal, pitchVal, volumeVal >>)
    /\ fillCfg' = <<>>
    /\ ppc' = "gen"
    /\ UNCHANGED << halted, bufferPool, audioCh, cpc, consBuf, played,
                    recycled, buffers, lastSample, tonePhase, rng, cfgVars,
                    httpVars, build, seed, tasks >>

\* The loop body with an arbitrary randomSample.
GenAny ==
    /\ \E x \in RawSamples : GenFrame(x)
    /\ UNCHANGED rng

\* The loop body with randomSample at either end of its range.
GenExtreme ==
    /\ \E x \in RawExtremes : GenFrame(x)
    /\ UNCHANGED rng

\* generateBrownNoise returns.
GenReturn ==
    /\ Running /\ ppc = "send"
    /\ prodBuf' = 0
    /\ ppc' = "recv"
    /\ UNCHANGED << halted, bufferPool, audioCh, cpc, consBuf, played,
                    recycled, a, p, v, fillCount, seqOf, cfgLog, genVars,
                    cfgVars, httpVars, build, seed, tasks >>

NextGen == GenCall(MaxGenCalls) \/ GenAny \/ GenReturn

SpecGen == InitGen /\ [][NextGen]_vars

NextCont == GenCall(MaxContCalls) \/ GenExtreme \/ GenReturn

SpecCont == InitCont /\ [][NextCont]_vars

(***************************************************************************)
(* Several goroutines calling generateBrownNoise at once, as               *)
(* TestConcurrentGeneration starts them: each has its own random source    *)
(* (seeded seed + id) and its own buffer, and calls the generator with     *)
(* alpha 0.01 (pitch 0 and volume 1) a number of times.  lastSample and    *)
(* tonePhase are the package-level variables: the goroutines read and      *)
(* write them without synchronisation, so each read and each write is a    *)
(* step of its own, and where the source reads a variable it has just      *)
(* written a build may load it again or keep the value it computed.        *)
(***************************************************************************)
Tasks == 1..NumTasks

TaskAlpha == RoundDiv(Scale, 100)
TaskCfg == << TaskAlpha, 0 * Scale, 1 * Scale >>

\* Everything these goroutines leave alone.
otherVars ==
    << halted, bufferPool, audioCh, ppc, prodBuf, a, p, v, i, cpc, consBuf,
       alphaVal, pitchVal, volumeVal, rng, build, hpc, req, seed, requests,
       fillCount, seqOf, played, recycled, cfgLog, fillCfg, storeEpoch,
       cfgAtReq >>

\* r := rand.New(rand.NewSource(seed + int64(id))); buf := make([]byte, ..)
InitConc ==
    /\ InitCommon
    /\ bufferPool = <<>>
    /\ seed = 0 /\ rng = NewSource(0)
    /\ build \in Builds
    /\ alphaVal = DefaultAlpha /\ pitchVal = DefaultPitch
    /\ volumeVal = DefaultVolume
    /\ cfgAtReq = << alphaVal, pitchVal, volumeVal >>
    /\ tasks = [t \in Tasks |->
                  [pc |-> "idle", rng |-> NewSource(seed + (t - 1)), i |-> 0,
                   calls |-> 0, reg |-> 0, smp |-> 0, phase |-> 0]]

\* generateBrownNoise(r, buf, 0.01) is called.
TaskCall(t) ==
    /\ tasks[t].pc = "idle"
    /\ tasks[t].calls < MaxTaskCalls
    /\ tasks' = [tasks EXCEPT ![t].pc = "draw", ![t].i = 0,
                               ![t].calls = @ + 1]
    /\ UNCHANGED << otherVars, buffers, lastSample, tonePhase >>

\* randomSample := 2*r.Float64() - 1, and the right-hand side of
\* lastSample = alpha*randomSample + (1-alpha)*lastSample
TaskRead(t) ==
    /\ tasks[t].pc = "draw"
    /\ tasks' = [tasks EXCEPT
                   ![t].rng = NextRng(@),
                   ![t].reg = Ema(TaskCfg[1],
                                  RandomSample(NextRng(tasks[t].rng)),
                                  lastSample),
                   ![t].pc = "store"]
    /\ UNCHANGED << otherVars, buffers, lastSample, tonePhase >>

\* The assignment to lastSample.
TaskStore(t) ==
    /\ tasks[t].pc = "store"
    /\ lastSample' = tasks[t].reg
    /\ tasks' = [tasks EXCEPT ![t].pc = "sample"]
    /\ UNCHANGED << otherVars, buffers, tonePhase >>

\* sample := lastSample (pitch is 0: no tone), and the read of tonePhase++
TaskSample(t) ==
    /\ tasks[t].pc = "sample"
    /\ \E last \in {tasks[t].reg, lastSample} :
          tasks' = [tasks EXCEPT
                      ![t].smp = ToneSample(last, TaskCfg[2], tonePhase),
                      ![t].phase = tonePhase,
                      ![t].pc = "write"]
    /\ UNCHANGED << otherVars, buffers, lastSample, tonePhase >>

\* The write of tonePhase++, the conversion and PutUint32.
TaskWrite(t) ==
    /\ tasks[t].pc = "write"
    /\ tonePhase' = tasks[t].phase + 1
    /\ buffers' = [buffers EXCEPT
                     ![t] = PutFrame(@, tasks[t].i,
                              FrameBytes(Quantize(tasks[t].smp, TaskCfg[3],
                                                  build)))]
    /\ tasks' = [tasks EXCEPT
                   ![t].i = @ + 4,
                   ![t].pc = IF tasks[t].i + 4 < Len(buffers[t])
                             THEN "draw" ELSE "check"]
    /\ UNCHANGED << otherVars, lastSample >>

\* generateBrownNoise has returned; the goroutine reads its buffer.
TaskCheck(t) ==
    /\ tasks[t].pc = "check"
    /\ tasks' = [tasks EXCEPT ![t].pc = "idle"]
    /\ UNCHANGED << otherVars, buffers, lastSample, tonePhase >>

NextConc ==
    \E t \in Tasks :
        \/ TaskCall(t)
        \/ TaskRead(t)
        \/ TaskStore(t)
        \/ TaskSample(t)
        \/ TaskWrite(t)
        \/ TaskCheck(t)

SpecConc == InitConc /\ [][NextConc]_vars

(***************************************************************************)
(* The earlier generateBrownNoise(r, buffer, alpha), which has neither the *)
(* tone injector nor the volume.                                           *)
(***************************************************************************)
\* lastSample = alpha*randomSample + (1-alpha)*lastSample
OldEma(alpha, randomSample, last) ==
    FMul(alpha, randomSample) + FMul(Scale - alpha, last)

\* s := int16(lastSample * 32767)
OldQuantize(last, bld) == Int16Of(TruncDiv(last * 32767, Scale), bld)

\* The four bytes it writes for a frame whose filter state has become last.
OldFrameBytes(last, bld) == FrameBytes(OldQuantize(last, bld))

(***************************************************************************)
(* Properties of the pipeline                                              *)
(***************************************************************************)
Occurrences(seq, b) == Cardinality({k \in 1..Len(seq) : seq[k] = b})

\* The places a buffer is held in.
Holders(b) ==
    Occurrences(bufferPool, b) + Occurrences(audioCh, b)
    + (IF prodBuf = b THEN 1 ELSE 0) + (IF consBuf = b THEN 1 ELSE 0)

\* C1: the main loop dequeues buffers in the order the producer filled them:
\* the generation sequence numbers it has seen are strictly increasing.
BufferOrder ==
    \A j, k \in 1..Len(played) : j < k => played[j] < played[k]

\* C1 witness: the main loop has dequeued a buffer that was filled a second
\* time, while the producer and the sink are both at work.
BufferOrderWitness ==
    /\ Len(played) > poolSize
    /\ played[Len(played)] > poolSize
    /\ cpc = "write"

\* C2: every pre-allocated buffer is held in exactly one place (bufferPool,
\* the producer, audioCh or the main loop), and there are poolSize buffers.
ExclusiveOwnership ==
    /\ DOMAIN buffers = BufferIds
    /\ \A b \in BufferIds : Holders(b) = 1

\* C2 witness: the producer is filling one buffer while the sink is writing
\* another, after a buffer has been recycled, with both queues non-empty.
ExclusiveOwnershipWitness ==
    /\ ppc = "gen" /\ i > 0 /\ cpc = "write"
    /\ prodBuf # 0 /\ consBuf # 0
    /\ bufferPool # <<>> /\ audioCh # <<>>
    /\ recycled > 0

\* C3: the producer has taken at most poolSize buffers more than the main
\* loop has returned, it cannot take one while bufferPool is empty, and no
\* buffer is ever allocated.
Backpressure ==
    /\ fillCount <= poolSize + recycled
    /\ DOMAIN buffers = BufferIds
    /\ (ppc = "recv" /\ bufferPool = <<>>) => ~ENABLED ProducerRecv

\* C3 witness: the first sink write has not returned, the producer has filled
\* exactly poolSize buffers and waits on the empty bufferPool.
BackpressureWitness ==
    /\ recycled = 0 /\ cpc = "write"
    /\ fillCount = poolSize
    /\ ppc = "recv" /\ bufferPool = <<>>
    /\ Len(audioCh) = poolSize - 1
    /\ ~ENABLED ProducerRecv

(***************************************************************************)
(* Properties of the parameters                                            *)
(***************************************************************************)
\* C6 (as claimed): every alpha the producer passes to generateBrownNoise
\* lies in (0, 1].
AlphaValidated ==
    ppc \in {"gen", "send"} => (a > 0 /\ a <= Scale)

\* What a handled field leaves in its parameter.
FieldOutcome(str, old, cur) ==
    IF req.parseErr \/ str = <<>> \/ ParseFloat(str).err
    THEN cur = old
    ELSE cur = ParseFloat(str).val

SnapshotPerBuffer ==
    ppc \in {"gen", "send"} =>
        /\ Len(fillCfg) = i \div 4
        /\ \A k \in 1..Len(fillCfg) : fillCfg[k] = << a, p, v >>
        /\ cfgLog[fillCount] = << a, p, v >>
        /\ fillCount > storeEpoch.alpha => a = alphaVal
        /\ fillCount > storeEpoch.pitch => p = pitchVal
        /\ fillCount > storeEpoch.volume => v = volumeVal

\* C8 witness: alpha was stored after the previous fill had taken its
\* snapshot; that fill kept the old alpha and the present one, one frame
\* in, uses the new one.
SnapshotPerBufferWitness ==
    /\ ppc = "gen" /\ i = 4
    /\ fillCount > 1 /\ storeEpoch.alpha = fillCount - 1
    /\ cfgLog[fillCount - 1][1] = DefaultAlpha
    /\ alphaVal # DefaultAlpha /\ a = alphaVal

(***************************************************************************)
(* Determinism                                                             *)
(***************************************************************************)
\* One frame's effect on the filter state and the random source.
RefStep(st, al) ==
    [last |-> Ema(al, RandomSample(NextRng(st.rng)), st.last),
     rng  |-> NextRng(st.rng)]

\* The filter state and the random source after n frames generated with
\* alpha al from seed sd, computed from the start of the process.
RECURSIVE RefState(_, _, _)
RefState(sd, al, n) ==
    IF n = 0 THEN [last |-> 0, rng |-> NewSource(sd)]
    ELSE RefStep(RefState(sd, al, n - 1), al)

\* The four bytes of the n-th frame (n >= 1) of such a process.
RefFrame(sd, cfg, n, bld) ==
    FrameBytes(Quantize(ToneSample(RefState(sd, cfg[1], n).last, cfg[2], n - 1),
                        cfg[3], bld))

\* Whether bytes are those of its k-th buffer.
IsRefBuffer(bytes, sd, cfg, k, bld) ==
    /\ Len(bytes) = bufferSizeInBytes
    /\ \A f \in 0..(framesPerBuffer - 1) :
          SubSeq(bytes, 4 * f + 1, 4 * f + 4)
            = RefFrame(sd, cfg, (k - 1) * framesPerBuffer + f + 1, bld)

FrameWritten == ppc \in {"gen", "send"} /\ i > 0

\* The integer part of sample * 32767 * vol for the frame written last, and
\* the int16 that frame holds.
LastScaled == Scaled(ToneSample(lastSample, p, tonePhase - 1), v)
LastStored == Int16At(buffers[prodBuf], i - 4)

\* C4 (as claimed, for parameters inside the documented ranges alpha in
\* (0, 1], pitch >= 0 and volume >= 0): when the scaled value of a frame is
\* outside the int16 range, the frame holds the nearer bound of the range.
QuantizationClamps ==
    (FrameWritten /\ a > 0 /\ a <= Scale /\ p >= 0 /\ v >= 0) =>
        /\ LastScaled > 32767 => LastStored = 32767
        /\ LastScaled < -32768 => LastStored = -32768

\* C5: with alpha in (0, 1], pitch 0 and volume 1, lastSample stays in
\* [-1, 1] after every frame of every buffer, and the int16 written is the
\* scaled value itself, inside [-32768, 32767].
FilterStateBounded ==
    (alphaVal > 0 /\ alphaVal <= Scale /\ pitchVal = 0 /\ volumeVal = Scale)
    => /\ lastSample >= -Scale /\ lastSample <= Scale
       /\ FrameWritten =>
             /\ LastScaled >= -32768 /\ LastScaled <= 32767
             /\ LastStored = LastScaled

\* C5 witness: in the second buffer generated with alpha 1, the filter state
\* has reached -1 and the frame holds -32767.
FilterStateBoundedWitness ==
    /\ alphaVal = Scale /\ pitchVal = 0 /\ volumeVal = Scale
    /\ fillCount = 2 /\ FrameWritten
    /\ lastSample = -Scale /\ LastStored = -32767

\* The buffer filled just before the current one.
PrevBuf == CHOOSE b \in BufferIds : seqOf[b] = fillCount - 1

\* A second or later buffer has its first frame, it and the buffer before it
\* generated with alpha 0.01, pitch 0 and volume 1.
AtBoundary ==
    /\ FrameWritten /\ fillCount >= 2
    /\ cfgLog[fillCount] = << DefaultAlpha, 0, Scale >>
    /\ cfgLog[fillCount - 1] = << DefaultAlpha, 0, Scale >>

\* |last sample of the previous buffer - first sample of the current one|
BoundaryJump ==
    Abs(Int16At(buffers[PrevBuf], bufferSizeInBytes - 4)
        - Int16At(buffers[prodBuf], 0))

SinkFailureFatal ==
    halted = "panic" =>
        /\ cpc = "write" /\ consBuf # 0
        /\ Occurrences(bufferPool, consBuf) = 0
        /\ Occurrences(audioCh, consBuf) = 0
        /\ ~ENABLED (SinkWriteOk \/ SinkWriteErr)
        /\ ~ENABLED ConsumerRecycle
        /\ ~ENABLED Next

\* C11 witness: a write has failed after an earlier one had succeeded, while
\* the producer was in the middle of a fill and a filled buffer was waiting.
SinkFailureFatalWitness ==
    /\ halted = "panic"
    /\ recycled > 0
    /\ ppc = "gen" /\ i > 0
    /\ audioCh # <<>>

(***************************************************************************)
(* The filter state and the phase accumulator                              *)
(***************************************************************************)
\* C12: lastSample is 0 before the first fill, only a step of the producer
\* inside generateBrownNoise changes it, and every step between the end of
\* one fill and the first frame of the next leaves it as it is.
FilterStateCarried ==
    /\ [](fillCount = 0 => lastSample = 0)
    /\ [][/\ lastSample' # lastSample => (ppc = "gen" /\ prodBuf # 0)
          /\ ppc # "gen" => lastSample' = lastSample]_vars

\* C12 witness: the second fill is about to start with a filter state other
\* than 0, the one the first fill ended with.
FilterStateCarriedWitness ==
    /\ fillCount = 2 /\ ppc = "gen" /\ i = 0
    /\ lastSample # 0

\* Frames generated since the process started.
FramesGenerated ==
    IF fillCount = 0 THEN 0
    ELSE IF ppc \in {"gen", "send"}
         THEN (fillCount - 1) * framesPerBuffer + (i \div 4)
    ELSE IF ppc = "recv" THEN fillCount * framesPerBuffer
    ELSE (fillCount - 1) * framesPerBuffer

\* C13: tonePhase equals the number of frames generated so far, across all
\* buffers and whatever the pitch.
PhaseCountsFrames == tonePhase = FramesGenerated

\* C13 witness: the first frame of the third buffer, the first buffer
\* generated with pitch 0 and this one with a pitch above 0.
PhaseCountsFramesWitness ==
    /\ fillCount = 3 /\ ppc = "gen" /\ i = 4
    /\ cfgLog[1][2] = 0 /\ p > 0
    /\ tonePhase = 2 * framesPerBuffer + 1

(***************************************************************************)
(* The tone injector switched off                                          *)
(***************************************************************************)
\* C14: with pitch 0 and volume 1, every frame generateBrownNoise generates
\* leaves the filter state and the four bytes that the earlier
\* three-argument generator leaves for the same raw sample, alpha and
\* filter state.
NoOpTone ==
    [][(ppc = "gen" /\ p = 0 /\ v = Scale) =>
          \E x \in RawSamples :
              /\ lastSample' = OldEma(a, x, lastSample)
              /\ SubSeq(buffers'[prodBuf], i + 1, i + 4)
                    = OldFrameBytes(lastSample', build)
              /\ \A k \in 1..bufferSizeInBytes :
                    (k <= i \/ k > i + 4) =>
                        buffers'[prodBuf][k] = buffers[prodBuf][k]]_vars

\* C14 witness: with pitch 0 and volume 1, a frame of the second buffer
\* holds a non-zero sample while the phase accumulator has advanced.
NoOpToneWitness ==
    /\ p = 0 /\ v = Scale /\ a = RoundDiv(Scale, 2)
    /\ fillCount = 2 /\ FrameWritten
    /\ tonePhase > framesPerBuffer
    /\ LastStored # 0

(***************************************************************************)
(* The two channels                                                        *)
(***************************************************************************)
\* C15: in every buffer, every frame holds the same int16 on its two
\* channels: the little-endian int16 at bytes [4f, 4f+2) equals the one at
\* bytes [4f+2, 4f+4).
StereoDuplicated ==
    \A b \in DOMAIN buffers :
        \A f \in 0..(framesPerBuffer - 1) :
            Int16At(buffers[b], 4 * f) = Int16At(buffers[b], 4 * f + 2)

\* C15 witness: a filled buffer waiting in audioCh whose first frame holds a
\* negative sample, on both channels.
StereoDuplicatedWitness ==
    \E k \in 1..Len(audioCh) :
        /\ Int16At(buffers[audioCh[k]], 0) < 0
        /\ Int16At(buffers[audioCh[k]], 2) = Int16At(buffers[audioCh[k]], 0)

(***************************************************************************)
(* The life of a buffer                                                    *)
(***************************************************************************)
\* Where a buffer is: in bufferPool, with the producer, in audioCh or with
\* the main loop.
BufState(b) ==
    IF prodBuf = b THEN "BEING_FILLED"
    ELSE IF consBuf = b THEN "BEING_PLAYED"
    ELSE IF Occurrences(audioCh, b) > 0 THEN "FILLED"
    ELSE "FREE"

CycleSteps ==
    { << "FREE", "BEING_FILLED" >>, << "BEING_FILLED", "FILLED" >>,
      << "FILLED", "BEING_PLAYED" >>, << "BEING_PLAYED", "FREE" >> }

\* C16: a step moves a buffer only along FREE -> BEING_FILLED -> FILLED ->
\* BEING_PLAYED -> FREE; it becomes FILLED only when all its frames have been
\* written, FREE only after player.Write has returned without error, and
\* its bytes change only while it is BEING_FILLED.
BufferCycle ==
    [][\A b \in BufferIds :
          /\ BufState(b)' # BufState(b) =>
                << BufState(b), BufState(b)' >> \in CycleSteps
          /\ (BufState(b) = "BEING_FILLED" /\ BufState(b)' = "FILLED") =>
                (i = Len(buffers[b]) /\ Len(fillCfg) = framesPerBuffer)
          /\ (BufState(b) = "BEING_PLAYED" /\ BufState(b)' = "FREE") =>
                (cpc = "recycle" /\ Occurrences(bufferPool', b) = 1)
          /\ buffers'[b] # buffers[b] =>
                (BufState(b) = "BEING_FILLED" /\ BufState(b)' = "BEING_FILLED")
      ]_vars

\* C16 witness: a buffer that has gone round the cycle once has been filled
\* again and written to the sink again, and is about to be recycled.
BufferCycleWitness ==
    /\ cpc = "recycle" /\ consBuf # 0
    /\ seqOf[consBuf] > poolSize
    /\ recycled >= poolSize

(***************************************************************************)
(* Progress                                                                *)
(***************************************************************************)
\* The producer waits on an empty bufferPool or a full audioCh.
ProducerBlocked ==
    \/ ppc = "recv" /\ bufferPool = <<>>
    \/ ppc = "send" /\ Len(audioCh) = poolSize

\* The main loop waits on an empty audioCh or a full bufferPool.
ConsumerBlocked ==
    \/ cpc = "recv" /\ audioCh = <<>>
    \/ cpc = "recycle" /\ Len(bufferPool) = poolSize

\* The buffer with sequence number k waits in audioCh.
Queued(k) == \E j \in 1..Len(audioCh) : seqOf[audioCh[j]] = k

\* player.Write has returned for the buffer with sequence number k.
Written(k) ==
    \E j \in 1..Len(played) :
        played[j] = k /\ (j < Len(played) \/ cpc # "write")

\* C17: when every write returns and both goroutines are scheduled fairly,
\* producer and main loop are never both blocked, every buffer sent on
\* audioCh is eventually written to the sink, and after any number of fills
\* (below the bound of the model) the producer starts another one.
PipelineProgress ==
    /\ [](~(ProducerBlocked /\ ConsumerBlocked))
    /\ \A k \in 1..MaxFills : Queued(k) ~> Written(k)
    /\ \A k \in 0..(MaxFills - 1) : (fillCount = k) ~> (fillCount = k + 1)

\* C17 witness: the producer, which had to wait for a recycled buffer, has
\* filled it and the sink has written it.
PipelineProgressWitness ==
    /\ fillCount > poolSize
    /\ recycled > 0
    /\ Written(fillCount)

(***************************************************************************)
(* Rounding                                                                *)
(***************************************************************************)
\* The fractional part of |sample * 32767 * vol|, in units of
\* 1 / (Scale * Scale).
ScaledFrac(sample, vol) ==
    LET x  == Abs(sample) * 32767
        w  == Abs(vol)
        t  == (x \div Scale) * w + ((x % Scale) * w) \div Scale
        r2 == ((x % Scale) * w) % Scale
    IN  (t % Scale) * Scale + r2

\* The integer nearest to sample * 32767 * vol (away from a tie).
Nearest(sample, vol) ==
    LET t == Scaled(sample, vol)
        neg == (sample < 0) # (vol < 0)
    IN  IF 2 * ScaledFrac(sample, vol) > Scale * Scale
        THEN (IF neg THEN t - 1 ELSE t + 1)
        ELSE t

LastSampleValue == ToneSample(lastSample, p, tonePhase - 1)

\* C18 (as claimed): the int16 a frame holds is the integer nearest to
\* sample * 32767 * volume, when that integer is inside the int16 range and
\* the value is not half-way between two integers.
QuantizationRounds ==
    (/\ FrameWritten
     /\ 2 * ScaledFrac(LastSampleValue, v) # Scale * Scale
     /\ Nearest(LastSampleValue, v) >= -32768
     /\ Nearest(LastSampleValue, v) <= 32767)
    => LastStored = Nearest(LastSampleValue, v)

(***************************************************************************)
(* The ranges of pitch and volume                                          *)
(***************************************************************************)
\* C19 (as claimed): pitchVal and volumeVal are never below 0, and neither
\* are the pitch and the volume the producer passes to generateBrownNoise.
ConfigNonNegative ==
    /\ pitchVal >= 0 /\ volumeVal >= 0
    /\ ppc \in {"gen", "send"} => (p >= 0 /\ v >= 0)

(***************************************************************************)
(* Concurrent generation                                                   *)
(***************************************************************************)
\* C20 (as claimed): each goroutine filters with a state of its own: when a
\* call of generateBrownNoise has returned, the goroutine's buffer holds
\* what its own random source, alpha and a filter state that started at 0
\* and that no other goroutine touched give for that call, whatever the
\* interleaving with the other goroutines.
IndependentFilterState ==
    \A t \in DOMAIN tasks :
        tasks[t].pc = "check" =>
            IsRefBuffer(buffers[t], seed + (t - 1), TaskCfg, tasks[t].calls,
                        build)

(***************************************************************************)
(* The capacity of the queues                                              *)
(***************************************************************************)
\* C21: the two queues together never hold more than poolSize buffers (so
\* neither exceeds its capacity), and a goroutine that has reached a send
\* finds room: the producer's audioCh <- buf and the main loop's
\* bufferPool <- buf are enabled whenever they are the next statement.
QueuesWithinCapacity ==
    /\ Len(bufferPool) + Len(audioCh) <= poolSize
    /\ Len(bufferPool) <= poolSize /\ Len(audioCh) <= poolSize
    /\ (Running /\ ppc = "send") =>
          (Len(audioCh) < poolSize /\ ENABLED ProducerSend)
    /\ (Running /\ cpc = "recycle") =>
          (Len(bufferPool) < poolSize /\ ENABLED ConsumerRecycle)

\* C21 witness: the producer is about to send the buffer that fills audioCh
\* to poolSize, the main loop not having taken any.
QueuesWithinCapacityWitness ==
    /\ ppc = "send" /\ Len(audioCh) = poolSize - 1
    /\ cpc = "recv" /\ bufferPool = <<>>

\* C22: the k-th buffer the main loop takes for the sink is the k-th buffer
\* the producer filled: the sequence numbers it sees are 1, 2, 3, ...
NoDropNoReplay ==
    /\ \A k \in 1..Len(played) : played[k] = k
    /\ Len(played) <= fillCount

\* C22 witness: every fill of the run has been handed to the sink, the last
\* one in a buffer that had been played before.
NoDropNoReplayWitness ==
    /\ Len(played) = MaxFills
    /\ played[MaxFills] = MaxFills
    /\ MaxFills > poolSize
    /\ cpc = "recv" /\ recycled = MaxFills

(***************************************************************************)
(* What a request leaves alone                                             *)
(***************************************************************************)
\* The producer's steps outside generateBrownNoise: its two channel
\* operations and its three Loads.
ProducerWaits ==
    \/ ProducerRecv
    \/ ProducerLoadAlpha
    \/ ProducerLoadPitch
    \/ ProducerLoadVolume
    \/ ProducerSend

\* C23: a step of the handler changes no queue, no buffer, no position or
\* local of the producer or of the main loop, neither lastSample nor
\* tonePhase; it changes a parameter only when handling the field of that
\* name, which then carries a number, to that number; and whether the
\* producer can take its next step (a channel operation or a Load; inside
\* generateBrownNoise its position is unchanged) and whether the main loop
\* can take its next step is the same after it as before.
HandlerFrame ==
    [][hpc' # hpc =>
          /\ UNCHANGED << halted, bufferPool, audioCh, buffers, prodBuf,
                          consBuf, ppc, cpc, i, a, p, v, lastSample,
                          tonePhase, rng >>
          /\ alphaVal' # alphaVal =>
                /\ hpc = "alpha" /\ FieldStores(req.alpha)
                /\ alphaVal' = ParseFloat(req.alpha).val
          /\ pitchVal' # pitchVal =>
                /\ hpc = "pitch" /\ FieldStores(req.pitch)
                /\ pitchVal' = ParseFloat(req.pitch).val
          /\ volumeVal' # volumeVal =>
                /\ hpc = "volume" /\ FieldStores(req.volume)
                /\ volumeVal' = ParseFloat(req.volume).val
          /\ (ENABLED ProducerWaits)' = ENABLED ProducerWaits
          /\ (ENABLED ConsumerStep)' = ENABLED ConsumerStep
      ]_vars

\* C23 witness: a request naming alpha alone has been handled while the
\* producer was inside a fill and the sink was writing: alpha is 0.5, pitch
\* and volume are as before and the filter state is not 0.
HandlerFrameWitness ==
    /\ hpc = "respond" /\ ~req.parseErr
    /\ req.alpha = << "0", ".", "5" >> /\ req.pitch = <<>>
    /\ req.volume = <<>>
    /\ alphaVal = RoundDiv(Scale, 2)
    /\ pitchVal = DefaultPitch /\ volumeVal = DefaultVolume
    /\ ppc = "gen" /\ i > 0 /\ cpc = "write"
    /\ lastSample # 0 /\ a = DefaultAlpha

(***************************************************************************)
(* Staleness at the sink                                                   *)
(***************************************************************************)
\* The present value of the n-th parameter (1 alpha, 2 pitch, 3 volume) and
\* the number of fills started when it was stored last.
CurrentVal(n) ==
    IF n = 1 THEN alphaVal ELSE IF n = 2 THEN pitchVal ELSE volumeVal
EpochOf(n) ==
    IF n = 1 THEN storeEpoch.alpha
    ELSE IF n = 2 THEN storeEpoch.pitch ELSE storeEpoch.volume

\* Sequence numbers the main loop has taken for the sink.
Dequeued == {played[j] : j \in 1..Len(played)}

\* Fills whose snapshot holds another value of the n-th parameter than the
\* present one.
StaleFills(n) == {k \in 1..Len(cfgLog) : cfgLog[k][n] # CurrentVal(n)}

\* The producer has loaded such a value for the fill whose snapshot it is
\* still taking.
StaleInFlight(n) ==
    \/ n = 1 /\ ppc \in {"loadPitch", "loadVolume"} /\ a # alphaVal
    \/ n = 2 /\ ppc = "loadVolume" /\ p # pitchVal

\* Buffers generated, or being generated, with an old value that the main
\* loop has not yet taken for the sink.
PendingStale(n) ==
    Cardinality(StaleFills(n) \ Dequeued)
    + (IF StaleInFlight(n) THEN 1 ELSE 0)

\* C24: at any moment after a parameter was stored (no later Store of that
\* parameter), at most poolSize buffers generated with its old value are
\* still to be taken for the sink, every fill that started after the Store
\* has the new value, and the sink is given the buffers in the order of
\* their generation: after those at most poolSize buffers every buffer
\* written has the new value.
BoundedStaleness ==
    /\ \A n \in 1..3 :
          /\ PendingStale(n) <= poolSize
          /\ \A k \in 1..Len(cfgLog) :
                k > EpochOf(n) => cfgLog[k][n] = CurrentVal(n)
    /\ \A j, k \in 1..Len(played) : j < k => played[j] < played[k]

\* C24 witness: a request that stored alpha has been answered while poolSize
\* buffers generated with the old alpha had not yet been taken for the sink.
BoundedStalenessWitness ==
    /\ requests = 1 /\ hpc = "idle"
    /\ alphaVal # DefaultAlpha
    /\ PendingStale(1) = poolSize

(***************************************************************************)
(* Failure of the server                                                   *)
(***************************************************************************)
\* C25: once http.ListenAndServe has returned and log.Fatal has run, no step
\* of the producer and no step of the main loop (no write to the sink) is
\* possible any more, nor any other step of the process, although no sink
\* write has failed.
ServerFailureFatal ==
    halted = "fatal" =>
        /\ ~ENABLED ProducerStep
        /\ ~ENABLED (ConsumerStep \/ SinkWriteErr)
        /\ ~ENABLED Next

\* C25 witness: the server has failed in the middle of playback: the
\* producer was inside a fill, the sink was writing a buffer and earlier
\* writes had succeeded.
ServerFailureFatalWitness ==
    /\ halted = "fatal"
    /\ ppc = "gen" /\ i > 0
    /\ cpc = "write" /\ recycled > 0
    /\ audioCh # <<>>

=============================================================================
